---- MODULE Spec2Model ----
(***************************************************************************)
(* A model of deboogie (src/__init__.py): the logger factory               *)
(* get_debug_logger / get_null_logger, the iteration tracer iterdebug and  *)
(* the call tracer tracewrap.                                              *)
(*                                                                         *)
(* Three specifications share the module state (the logger objects and the *)
(* streams they write to):                                                 *)
(*   SpecLog   the logger factory and calls through the handles it returns *)
(*   SpecIter  one iterdebug generator and its consumer                    *)
(*   Spec      a function wrapped by tracewrap(...) and calls of it        *)
(***************************************************************************)
EXTENDS Integers, Sequences, FiniteSets, TLC

VARIABLES
    loggers,    \* the logging.Logger objects created so far, in creation order
    streams,    \* stream name -> the texts written to it, in order
    handles,    \* SpecLog: the handles returned by get_debug_logger
    lastlog,    \* SpecLog: the last call through a handle and the writes it made
    nops,       \* SpecLog: number of operations done
    gen,        \* SpecIter: the generator object returned by iterdebug
    yielded,    \* SpecIter: the elements the consumer has received
    cfg,        \* Spec: the formatters and sinks given to tracewrap
    stack,      \* Spec: the active calls of the wrapped function, innermost last
    hist,       \* Spec: what happened so far, in order
    parent,     \* Spec: call id -> id of the enclosing call (0: none)
    outcome     \* Spec: how the last finished call ended

vars == << loggers, streams, handles, lastlog, nops, gen, yielded,
           cfg, stack, hist, parent, outcome >>

logvars  == << handles, lastlog, nops >>
itervars == << gen, yielded >>
tracevars == << cfg, stack, hist, parent, outcome >>

(***************************************************************************)
(* Bounds of the model.                                                    *)
(***************************************************************************)
MaxOps == 4         \* SpecLog: operations per behaviour
MaxLen == 3         \* SpecIter: length of the input sequence
MaxElem == 2        \* SpecIter: elements are 1..MaxElem
MaxCalls == 2       \* Spec: calls of the wrapped function per behaviour
MaxDepth == 2       \* Spec: nesting depth of calls

(***************************************************************************)
(* Python values.  Every value has the same shape:                         *)
(*   ty   its type: "NoneType", "int", "tuple", "str", "exc"               *)
(*   of   for a str: the type of the value it renders ("" for plain text)  *)
(*   lab  a label or prefix ("->", "<-", "jive ", ...)                     *)
(*   rec  what a tuple holds: "call" (function, args, kwargs), "ret"       *)
(*   a    positional payload (a sequence of integers)                      *)
(*   k    keyword payload (a set of <<name, integer>> pairs)               *)
(*   q    for a str: how many times its content was quoted by repr         *)
(* A str value is the text that renders the value described by the other   *)
(* fields.                                                                 *)
(***************************************************************************)
Val(ty, lab, rec, a, k) ==
    [ty |-> ty, of |-> "", lab |-> lab, rec |-> rec, a |-> a, k |-> k,
     q |-> 0]

None == Val("NoneType", "", "", <<>>, {})

PyInt(i) == Val("int", "", "", <<i>>, {})

PyText(s) == Val("str", s, "", <<>>, {})

\* str(v): a str is returned as it is, anything else is rendered
PyStr(v) == IF v.ty = "str" THEN v
            ELSE [v EXCEPT !.ty = "str", !.of = v.ty]

\* pformat(v): the repr of v; the repr of a str is the str in quotes
PFormat(v) == IF v.ty = "str" THEN [v EXCEPT !.q = @ + 1]
              ELSE [v EXCEPT !.ty = "str", !.of = v.ty]

\* (('function', f), ('args', args), ('kwargs', kwargs))
Record(args, kwargs) == Val("tuple", "", "call", args, kwargs)

\* tuplabel(name)(tup) == (name, tup)
Tuplabel(name, tup) == [tup EXCEPT !.lab = name]

\* bool(v) for the values of the model
Truthy(v) == v.ty # "NoneType"

(***************************************************************************)
(* Streams.  "stderr" is what StreamHandler(strm=None) writes to, "stdout" *)
(* a stream given by the caller, "null" the module's null_stream.          *)
(***************************************************************************)
StreamIds == {"stderr", "stdout", "null"}

NoStream == "None"

\* StreamHandler(strm=strm): the stream the handler is bound to
HandlerStream(strm) == IF strm = NoStream THEN "stderr" ELSE strm

\* NullStream.write as StringIO.write: keeps what is written
StreamWriteKeeps(content, strm, text) == Append(content, text)

\* stream.write(text): NullStream.write does nothing
StreamWrite(content, strm, text) ==
    IF strm = "null" THEN content ELSE Append(content, text)

\* one write, [strm, text], applied to the streams
ApplyWrite(st, w) ==
    [st EXCEPT ![w.strm] = StreamWrite(@, w.strm, w.text)]

RECURSIVE ApplyWrites(_, _)
ApplyWrites(st, ws) ==
    IF ws = <<>> THEN st
    ELSE ApplyWrites(ApplyWrite(st, Head(ws)), Tail(ws))

(***************************************************************************)
(* Loggers.  A logger is [name, handlers]; a handler is the stream it is   *)
(* bound to.  The module creates null_log and tracewrap_log when loaded.   *)
(***************************************************************************)
NullLog == 1
TracewrapLog == 2

ModuleLoggers ==
    << [name |-> "null", handlers |-> << "null" >>],
       [name |-> "tracewrap", handlers |-> << "stderr" >>] >>

\* logging.getLogger-like: the logger of that name, if there is one
LoggerByName(ls, name) ==
    IF \E i \in 1..Len(ls) : ls[i].name = name
    THEN CHOOSE i \in 1..Len(ls) : ls[i].name = name
    ELSE Len(ls) + 1

\* Logger(name): always a new object
NewLogger(ls, name) == Len(ls) + 1

\* get_debug_logger(name, strm): the loggers after the call
WithLogger(ls, name, strm) ==
    LET i == NewLogger(ls, name)
        l == IF i > Len(ls) THEN [name |-> name, handlers |-> <<>>] ELSE ls[i]
        l2 == [l EXCEPT !.handlers = Append(@, HandlerStream(strm))]
    IN  IF i > Len(ls) THEN Append(ls, l2) ELSE [ls EXCEPT ![i] = l2]

\* a logger that emits every record twice
DebugTwice(ls, h, msg) ==
    [i \in 1..(2 * Len(ls[h].handlers)) |->
        [strm |-> ls[h].handlers[((i - 1) % Len(ls[h].handlers)) + 1],
         text |-> PyStr(msg)]]

\* debug(msg): the writes logger h makes, one per handler, of "%s\n" % str(msg)
Debug(ls, h, msg) ==
    [i \in 1..Len(ls[h].handlers) |->
        [strm |-> ls[h].handlers[i], text |-> PyStr(msg)]]

\* debug.pp(obj) == debug(pformat(obj))
DebugPP(ls, h, obj) == Debug(ls, h, PFormat(obj))

EmptyStreams == [s \in StreamIds |-> <<>>]

(***************************************************************************)
(* SpecLog: the logger factory.  A handle is the debug function returned   *)
(* by get_debug_logger, with its .logger and .handler attributes.          *)
(***************************************************************************)
Names == {"boogie", "tracewrap"}

\* what is logged: a text, None, a default input record of tracewrap
Msgs == {PyText("Hit me one time!  OW!"), None,
         PFormat(Tuplabel("->", Record(<< 1 >>, {})))}

ModuleHandles ==
    << [logger |-> NullLog, handler |-> "null"],
       [logger |-> TracewrapLog, handler |-> "stderr"] >>

NoLog == [h |-> 0, text |-> None, writes |-> <<>>,
          grew |-> [s \in StreamIds |-> 0]]

Grew(old, new) == [s \in StreamIds |-> Len(new[s]) - Len(old[s])]

InitLog ==
    /\ loggers = ModuleLoggers
    /\ streams = EmptyStreams
    /\ handles = ModuleHandles
    /\ lastlog = NoLog
    /\ nops = 0
    /\ gen = [pc |-> "none"]
    /\ yielded = <<>>
    /\ cfg = [infmt |-> "default", outfmt |-> "default",
              inlog |-> "tracewrap_log", outlog |-> "tracewrap_log"]
    /\ stack = <<>>
    /\ hist = <<>>
    /\ parent = <<>>
    /\ outcome = [kind |-> "none", v |-> None]

\* debug = get_debug_logger(name, strm=strm)
GetDebugLogger(name, strm) ==
    /\ nops < MaxOps
    /\ loggers' = WithLogger(loggers, name, strm)
    /\ handles' = Append(handles, [logger |-> NewLogger(loggers, name),
                                   handler |-> HandlerStream(strm)])
    /\ nops' = nops + 1
    /\ UNCHANGED << streams, lastlog, itervars, tracevars >>

\* get_null_logger(name) == get_debug_logger(name, null_stream)
GetNullLogger(name) == GetDebugLogger(name, "null")

\* the writes of one call through handle h, applied
LogThrough(h, text, writes) ==
    /\ nops < MaxOps
    /\ streams' = ApplyWrites(streams, writes)
    /\ lastlog' = [h |-> h, text |-> text, writes |-> writes,
                   grew |-> Grew(streams, ApplyWrites(streams, writes))]
    /\ nops' = nops + 1
    /\ UNCHANGED << loggers, handles, itervars, tracevars >>

\* debug(msg) through handle h
LogCall(h, msg) ==
    LogThrough(h, PyStr(msg), Debug(loggers, handles[h].logger, msg))

\* debug.pp(obj) through handle h
PPCall(h, obj) ==
    LogThrough(h, PyStr(PFormat(obj)), DebugPP(loggers, handles[h].logger, obj))

NextLog ==
    \/ \E name \in Names, strm \in {NoStream, "stdout"} :
           GetDebugLogger(name, strm)
    \/ \E name \in Names : GetNullLogger(name)
    \/ \E h \in 1..Len(handles), msg \in Msgs : LogCall(h, msg)
    \/ \E h \in 1..Len(handles), obj \in Msgs : PPCall(h, obj)

SpecLog == InitLog /\ [][NextLog]_vars

(***************************************************************************)
(* C7: after any sequence of get_debug_logger calls, equal names included, *)
(* every handle has a logger of its own that carries exactly one handler,  *)
(* the handle's; a message logged through a handle is written exactly      *)
(* once, to that handle's destination.                                     *)
(***************************************************************************)
C7_OwnSinkWriteOnce ==
    /\ \A i, j \in 1..Len(handles) :
           i # j => handles[i].logger # handles[j].logger
    /\ \A i \in 1..Len(handles) :
           loggers[handles[i].logger].handlers = << handles[i].handler >>
    /\ lastlog.h # 0 =>
           /\ lastlog.writes = << [strm |-> handles[lastlog.h].handler,
                                   text |-> lastlog.text] >>
           /\ \A s \in StreamIds :
                  lastlog.grew[s] =
                      IF s = handles[lastlog.h].handler /\ s # "null"
                      THEN 1 ELSE 0

\* a handle made before two later handles of the same name has logged
C7_Witness ==
    /\ lastlog.h # 0
    /\ \E i, j \in 1..Len(handles) :
           /\ i # j /\ i # lastlog.h /\ j # lastlog.h
           /\ lastlog.h < i
           /\ loggers[handles[i].logger].name
                  = loggers[handles[lastlog.h].logger].name
           /\ handles[i].handler = handles[lastlog.h].handler
    /\ handles[lastlog.h].handler = "stdout"

(***************************************************************************)
(* C8: a logger made by get_null_logger discards everything: whatever is   *)
(* logged or pretty-printed through it (null_log included), null_stream    *)
(* stays empty and no other stream receives anything.                      *)
(***************************************************************************)
C8_NullLoggerDiscards ==
    /\ streams["null"] = <<>>
    /\ (lastlog.h # 0 /\ handles[lastlog.h].handler = "null") =>
           \A s \in StreamIds : lastlog.grew[s] = 0

\* a pretty-print through a null logger made by get_null_logger, after a
\* message went to a real stream
C8_Witness ==
    /\ lastlog.h > Len(ModuleHandles)
    /\ handles[lastlog.h].handler = "null"
    /\ lastlog.text.q = 1
    /\ streams["stdout"] # <<>>

(***************************************************************************)
(* SpecIter: iterdebug(name, it, stringifier, strm) and its consumer.      *)
(* The generator object is                                                 *)
(*   pc    "created"  made by the call, no line of the body has run        *)
(*         "for"      at the head of the loop                              *)
(*         "log"      before debug(stringifier(i))                         *)
(*         "yield"    before yield i                                       *)
(*         "yielded"  suspended at the yield, the consumer holds control   *)
(*         "done"     the loop ended, StopIteration went to the consumer   *)
(*   it    the input, pos the number of elements taken from it             *)
(*   cur   the loop variable i                                             *)
(*   debug the logger made by line 74 (0 before)                           *)
(***************************************************************************)
Stringifiers == {"str", "jive", "const"}

\* stringifier(i): str, 'jive {0}'.format, or lambda i: 'x'
Stringify(kind, v) ==
    CASE kind = "str" -> PyStr(v)
      [] kind = "jive" -> [PyStr(v) EXCEPT !.lab = "jive "]
      [] OTHER -> PyText("x")

RECURSIVE SeqsUpTo(_, _)
SeqsUpTo(S, n) ==
    IF n = 0 THEN { <<>> }
    ELSE LET shorter == SeqsUpTo(S, n - 1)
         IN  shorter \cup { Append(q, x) : q \in shorter, x \in S }

Inputs == SeqsUpTo({ PyInt(i) : i \in 1..MaxElem }, MaxLen)

\* a loop body that yields the element before logging it
LoopBodyYieldFirst == << "yield", "log" >>

\* the statements of the loop body, lines 76 and 77
LoopBody == << "log", "yield" >>

\* where the generator goes after a statement of the loop body
After(step) ==
    LET i == CHOOSE j \in 1..Len(LoopBody) : LoopBody[j] = step
    IN  IF i = Len(LoopBody) THEN "for" ELSE LoopBody[i + 1]

\* a generator that yields the stringified element
YieldsStringified(received, kind, i) == Append(received, Stringify(kind, i))

\* yield i: what the consumer has received after it
Yields(received, kind, i) == Append(received, i)

InitIter ==
    /\ loggers = ModuleLoggers
    /\ streams = EmptyStreams
    /\ handles = ModuleHandles
    /\ lastlog = NoLog
    /\ nops = 0
    /\ \E it \in Inputs, kind \in Stringifiers, strm \in {NoStream, "stdout"} :
           gen = [pc |-> "created", name |-> "jives", it |-> it, pos |-> 0,
                  cur |-> None, stringifier |-> kind, strm |-> strm,
                  debug |-> 0]
    /\ yielded = <<>>
    /\ cfg = [infmt |-> "default", outfmt |-> "default",
              inlog |-> "tracewrap_log", outlog |-> "tracewrap_log"]
    /\ stack = <<>>
    /\ hist = <<>>
    /\ parent = <<>>
    /\ outcome = [kind |-> "none", v |-> None]

\* the consumer calls next(): the first time the body starts at line 74,
\* later it goes on after the yield
IterResume ==
    /\ gen.pc \in {"created", "yielded"}
    /\ IF gen.pc = "created"
       THEN /\ loggers' = WithLogger(loggers, gen.name, gen.strm)
            /\ gen' = [gen EXCEPT !.pc = "for",
                                  !.debug = NewLogger(loggers, gen.name)]
       ELSE /\ gen' = [gen EXCEPT !.pc = After("yield")]
            /\ UNCHANGED loggers
    /\ UNCHANGED << streams, yielded, logvars, tracevars >>

\* for i in iter(it): the next element
IterFetch ==
    /\ gen.pc = "for"
    /\ gen.pos < Len(gen.it)
    /\ gen' = [gen EXCEPT !.pc = LoopBody[1], !.pos = @ + 1,
                          !.cur = gen.it[gen.pos + 1]]
    /\ UNCHANGED << loggers, streams, yielded, logvars, tracevars >>

\* for i in iter(it): the input is exhausted, the generator ends
IterExhausted ==
    /\ gen.pc = "for"
    /\ gen.pos = Len(gen.it)
    /\ gen' = [gen EXCEPT !.pc = "done"]
    /\ UNCHANGED << loggers, streams, yielded, logvars, tracevars >>

\* debug(stringifier(i))
IterLog ==
    /\ gen.pc = "log"
    /\ streams' = ApplyWrites(streams,
                     Debug(loggers, gen.debug, Stringify(gen.stringifier, gen.cur)))
    /\ gen' = [gen EXCEPT !.pc = After("log")]
    /\ UNCHANGED << loggers, yielded, logvars, tracevars >>

\* yield i
IterYield ==
    /\ gen.pc = "yield"
    /\ yielded' = Yields(yielded, gen.stringifier, gen.cur)
    /\ gen' = [gen EXCEPT !.pc = "yielded"]
    /\ UNCHANGED << loggers, streams, logvars, tracevars >>

NextIter ==
    \/ IterResume
    \/ IterFetch
    \/ IterExhausted
    \/ IterLog
    \/ IterYield

SpecIter == InitIter /\ [][NextIter]_vars

\* the lines written to the destination of the generator's logger
Lines == streams[HandlerStream(gen.strm)]

\* the consumer holds control: the generator is not running
ConsumerHasControl == gen.pc \in {"created", "yielded", "done"}

(***************************************************************************)
(* C5: the elements yielded are the input's, in order: at any time a       *)
(* prefix of the input, and all of it when the generator has ended; the    *)
(* generator ends only when the input is used up.                          *)
(***************************************************************************)
C5_YieldsInput ==
    /\ Len(yielded) <= Len(gen.it)
    /\ yielded = SubSeq(gen.it, 1, Len(yielded))
    /\ gen.pc = "done" => yielded = gen.it

\* a full input with a repeated element has been consumed to the end
C5_Witness ==
    /\ gen.pc = "done"
    /\ Len(gen.it) = MaxLen
    /\ gen.it[1] = gen.it[2]
    /\ gen.it[2] # gen.it[3]
    /\ yielded = gen.it

(***************************************************************************)
(* C6: when the consumer has received k elements, k lines have been        *)
(* written, the stringifier's outputs for the first k elements in order,   *)
(* and k elements have been taken from the input; the line of an element   *)
(* is written before the element is yielded and nothing is written before  *)
(* the first element is asked for.                                         *)
(***************************************************************************)
C6_LinePerElement ==
    /\ Lines = [j \in 1..Len(Lines) |-> Stringify(gen.stringifier, gen.it[j])]
    /\ Len(Lines) >= Len(yielded)
    /\ ConsumerHasControl =>
           /\ Len(Lines) = Len(yielded)
           /\ gen.pos = Len(yielded)
    /\ ~ConsumerHasControl =>
           /\ Len(Lines) <= Len(yielded) + 1
           /\ gen.pos <= Len(yielded) + 1
    /\ gen.pc = "created" => Lines = <<>>

\* the consumer holds two elements of a longer input, with two lines written
C6_Witness ==
    /\ gen.pc = "yielded"
    /\ Len(yielded) = 2
    /\ Len(gen.it) > 2
    /\ Len(Lines) = 2
    /\ gen.stringifier = "jive"

(***************************************************************************)
(* Spec: g = tracewrap(infmt, outfmt, inlog, outlog)(f) and calls of g.    *)
(*                                                                         *)
(* cfg names the formatters and sinks:                                     *)
(*   formatter  "default"   pformat(tuplabel('->' or '<-')(a))             *)
(*              "null_fmt"  returns None                                   *)
(*              "mutates"   a caller's formatter that adds a key to the    *)
(*                          kwargs dict of the record and returns its      *)
(*                          pformat (infmt only)                           *)
(*              "raises"    a caller's formatter that raises               *)
(*   sink       "tracewrap_log"  the module's default logger               *)
(*              "null_log"       the module's null logger                  *)
(*              "printlog"       the doctest's sink, silent on None        *)
(*              "raises"         a caller's sink that raises               *)
(*                                                                         *)
(* A frame of the stack is one running call of g:                          *)
(*   id      number of the call, in order of entry                         *)
(*   pc      the statement of trace it is at (a member of TraceSteps),     *)
(*           or "body" while f runs                                        *)
(*   args, kwargs   what g holds as *args and **kwargs                     *)
(*   msg     the last formatter result, ret the value f returned           *)
(*   exc     an exception that reached f's body from a call f made         *)
(*                                                                         *)
(* hist is the sequence of events [id, ev, v, w]:                          *)
(*   "call"    g entered with record v                                     *)
(*   "infmt"   infmt invoked with record v                                 *)
(*   "inlog"   inlog invoked with v, making the writes w                   *)
(*   "f"       f invoked with the args and kwargs of record v              *)
(*   "fret"    f returned v           "fraise"  f raised v                 *)
(*   "outfmt"  outfmt invoked with v                                       *)
(*   "outlog"  outlog invoked with v, making the writes w                  *)
(*   "return"  g returned v           "raise"   g raised v                 *)
(***************************************************************************)
InFormatters == {"default", "null_fmt", "mutates", "raises"}
OutFormatters == {"default", "null_fmt", "raises"}
Sinks == {"tracewrap_log", "null_log", "printlog", "raises"}

DefaultCfg == [infmt |-> "default", outfmt |-> "default",
               inlog |-> "tracewrap_log", outlog |-> "tracewrap_log"]

\* the args and kwargs a call is made with
CallInputs == { [a |-> << 1 >>, k |-> {}],
                [a |-> << 1, 2 >>, k |-> { << "x", 3 >> }] }

\* f(*args, **kwargs) of the doctests: returns (text, wa, wk)
RetOf(args, kwargs) == Val("tuple", "", "ret", args, kwargs)

\* the exception raised by `step` of call id
Exc(step, id) == Val("exc", step, "", << id >>, {})

NoExc == None

\* the formatter of that kind applied to v: whether it raises, what it
\* returns, and the kwargs dict of v afterwards
FmtResult(kind, label, v) ==
    CASE kind = "default" ->
             [raised |-> FALSE, v |-> PFormat(Tuplabel(label, v)), k |-> v.k]
      [] kind = "null_fmt" ->
             [raised |-> FALSE, v |-> None, k |-> v.k]
      [] kind = "mutates" ->
             [raised |-> FALSE, v |-> PFormat(Tuplabel(label, v)),
              k |-> v.k \cup { << "m", 0 >> }]
      [] OTHER ->
             [raised |-> TRUE, v |-> None, k |-> v.k]

SinkRaises(kind) == kind = "raises"

\* the writes the sink of that kind makes when called with msg
SinkWrites(kind, msg) ==
    CASE kind = "tracewrap_log" -> Debug(loggers, TracewrapLog, msg)
      [] kind = "null_log" -> Debug(loggers, NullLog, msg)
      [] kind = "printlog" ->
             IF Truthy(msg)
             THEN << [strm |-> "stdout",
                      text |-> [PyStr(msg) EXCEPT
                                   !.lab = "Example call trace:  " \o @]] >>
             ELSE <<>>
      [] OTHER -> <<>>

\* a wrapper that skips the sink when the formatter returned None
SinkCalledUnlessNone(msg) == msg # None

\* inlog(infmt(...)), outlog(outfmt(ret)): the sink is called with whatever
\* the formatter returned
SinkCalled(msg) == TRUE

\* a wrapper that logs the input only after f has returned
TraceStepsLogLate == << "f", "infmt", "inlog", "outfmt", "outlog", "return" >>

\* the statements of trace, lines 163 to 167, in order
TraceSteps == << "infmt", "inlog", "f", "outfmt", "outlog", "return" >>

StepAfter(step) ==
    LET i == CHOOSE j \in 1..Len(TraceSteps) : TraceSteps[j] = step
    IN  TraceSteps[i + 1]

\* a wrapper that returns what the output formatter made of the value
ReturnsFormatted(fr) == fr.msg

\* return ret
ReturnValue(fr) == fr.ret

\* a wrapper that logs an output record in a finally clause
OnRaiseFinally(step) == IF step = "f" THEN "finally" ELSE "propagate"

\* a wrapper that swallows the failures of its tracing steps
OnRaiseSwallow(step) == IF step = "f" THEN "propagate" ELSE "swallow"

\* what trace does with an exception raised in `step`: it has no try
\* statement, the exception leaves g
OnRaise(step) == "propagate"

Event(id, ev, v, w) == [id |-> id, ev |-> ev, v |-> v, w |-> w]

Top == stack[Len(stack)]

SetTop(fr) == [stack EXCEPT ![Len(stack)] = fr]

\* the stack after its top frame is left with exception e
Unwound(e) ==
    LET rest == SubSeq(stack, 1, Len(stack) - 1)
    IN  IF rest = <<>> THEN rest
        ELSE [rest EXCEPT ![Len(rest)].exc = e]

\* exception e raised in `step` of the top frame, after the events evs
Raise(step, e, evs) ==
    LET mode == OnRaise(step)
    IN  IF mode = "swallow"
        THEN /\ stack' = SetTop([Top EXCEPT !.pc = StepAfter(step)])
             /\ hist' = hist \o evs
             /\ UNCHANGED << streams, outcome >>
        ELSE LET ws == IF mode = "finally"
                       THEN SinkWrites(cfg.outlog, None) ELSE <<>>
                 more == IF mode = "finally"
                         THEN << Event(Top.id, "outlog", None, ws) >>
                         ELSE <<>>
             IN  /\ stack' = Unwound(e)
                 /\ hist' = hist \o evs \o more
                              \o << Event(Top.id, "raise", e, <<>>) >>
                 /\ streams' = ApplyWrites(streams, ws)
                 /\ outcome' = [kind |-> "raise", v |-> e]

Init ==
    /\ loggers = ModuleLoggers
    /\ streams = EmptyStreams
    /\ handles = ModuleHandles
    /\ lastlog = NoLog
    /\ nops = 0
    /\ gen = [pc |-> "none"]
    /\ yielded = <<>>
    /\ cfg \in [infmt : InFormatters, outfmt : OutFormatters,
                inlog : Sinks, outlog : Sinks]
    /\ stack = <<>>
    /\ hist = <<>>
    /\ parent = <<>>
    /\ outcome = [kind |-> "none", v |-> None]

\* g(*args, **kwargs) entered, from the enclosing call `par` (0: none)
Enter(in, par) ==
    LET id == Len(parent) + 1
    IN  /\ Len(parent) < MaxCalls
        /\ stack' = Append(stack,
               [id |-> id, pc |-> TraceSteps[1], args |-> in.a,
                kwargs |-> in.k, msg |-> None, ret |-> None, exc |-> NoExc])
        /\ hist' = Append(hist, Event(id, "call", Record(in.a, in.k), <<>>))
        /\ parent' = Append(parent, par)
        /\ UNCHANGED << loggers, streams, outcome, cfg, logvars, itervars >>

\* a call of g from outside
Call(in) ==
    /\ stack = <<>>
    /\ Enter(in, 0)

\* f calls g: a nested or recursive call
FCall(in) ==
    /\ stack # <<>>
    /\ Len(stack) < MaxDepth
    /\ Top.pc = "body"
    /\ Top.exc = NoExc
    /\ Enter(in, Top.id)

\* the formatter half of inlog(infmt(record)) and outlog(outfmt(ret))
Format(step, kind, label, v) ==
    /\ stack # <<>>
    /\ Top.pc = step
    /\ LET r == FmtResult(kind, label, v)
           ev == Event(Top.id, step, v, <<>>)
       IN  IF r.raised
           THEN Raise(step, Exc(step, Top.id), << ev >>)
           ELSE /\ stack' = SetTop([Top EXCEPT
                                       !.pc = StepAfter(step),
                                       !.msg = r.v,
                                       !.kwargs = IF step = "infmt"
                                                  THEN r.k ELSE @])
                /\ hist' = Append(hist, ev)
                /\ UNCHANGED << streams, outcome >>
    /\ UNCHANGED << loggers, cfg, parent, logvars, itervars >>

\* the sink half of inlog(infmt(record)) and outlog(outfmt(ret))
Log(step, kind) ==
    /\ stack # <<>>
    /\ Top.pc = step
    /\ IF ~SinkCalled(Top.msg)
       THEN /\ stack' = SetTop([Top EXCEPT !.pc = StepAfter(step)])
            /\ UNCHANGED << hist, streams, outcome >>
       ELSE IF SinkRaises(kind)
       THEN Raise(step, Exc(step, Top.id),
                  << Event(Top.id, step, Top.msg, <<>>) >>)
       ELSE LET ws == SinkWrites(kind, Top.msg)
            IN  /\ stack' = SetTop([Top EXCEPT !.pc = StepAfter(step)])
                /\ hist' = Append(hist, Event(Top.id, step, Top.msg, ws))
                /\ streams' = ApplyWrites(streams, ws)
                /\ UNCHANGED outcome
    /\ UNCHANGED << loggers, cfg, parent, logvars, itervars >>

Infmt == Format("infmt", cfg.infmt, "->", Record(Top.args, Top.kwargs))

Inlog == Log("inlog", cfg.inlog)

\* ret = f(*args, **kwargs): f is entered
InvokeF ==
    /\ stack # <<>>
    /\ Top.pc = "f"
    /\ stack' = SetTop([Top EXCEPT !.pc = "body"])
    /\ hist' = Append(hist,
                  Event(Top.id, "f", Record(Top.args, Top.kwargs), <<>>))
    /\ UNCHANGED << loggers, streams, outcome, cfg, parent, logvars, itervars >>

\* ret = f(*args, **kwargs): f returns
FReturn ==
    /\ stack # <<>>
    /\ Top.pc = "body"
    /\ Top.exc = NoExc
    /\ LET ret == RetOf(Top.args, Top.kwargs)
       IN  /\ stack' = SetTop([Top EXCEPT !.pc = StepAfter("f"), !.ret = ret])
           /\ hist' = Append(hist, Event(Top.id, "fret", ret, <<>>))
    /\ UNCHANGED << loggers, streams, outcome, cfg, parent, logvars, itervars >>

\* ret = f(*args, **kwargs): f raises an exception of its own
FRaise ==
    /\ stack # <<>>
    /\ Top.pc = "body"
    /\ Top.exc = NoExc
    /\ LET e == Exc("f", Top.id)
       IN  Raise("f", e, << Event(Top.id, "fraise", e, <<>>) >>)
    /\ UNCHANGED << loggers, cfg, parent, logvars, itervars >>

\* f lets the exception of a call it made go on
FPropagate ==
    /\ stack # <<>>
    /\ Top.pc = "body"
    /\ Top.exc # NoExc
    /\ Raise("f", Top.exc, << Event(Top.id, "fraise", Top.exc, <<>>) >>)
    /\ UNCHANGED << loggers, cfg, parent, logvars, itervars >>

\* f catches the exception of a call it made
FCatch ==
    /\ stack # <<>>
    /\ Top.pc = "body"
    /\ Top.exc # NoExc
    /\ stack' = SetTop([Top EXCEPT !.exc = NoExc])
    /\ UNCHANGED << loggers, streams, hist, outcome, cfg, parent,
                    logvars, itervars >>

Outfmt == Format("outfmt", cfg.outfmt, "<-", Top.ret)

Outlog == Log("outlog", cfg.outlog)

\* return ret
Return ==
    /\ stack # <<>>
    /\ Top.pc = "return"
    /\ stack' = SubSeq(stack, 1, Len(stack) - 1)
    /\ hist' = Append(hist, Event(Top.id, "return", ReturnValue(Top), <<>>))
    /\ outcome' = [kind |-> "return", v |-> ReturnValue(Top)]
    /\ UNCHANGED << loggers, streams, cfg, parent, logvars, itervars >>

Next ==
    \/ \E in \in CallInputs : Call(in)
    \/ \E in \in CallInputs : FCall(in)
    \/ Infmt
    \/ Inlog
    \/ InvokeF
    \/ FReturn
    \/ FRaise
    \/ FPropagate
    \/ FCatch
    \/ Outfmt
    \/ Outlog
    \/ Return

Spec == Init /\ [][Next]_vars

(***************************************************************************)
(* Reading the history.                                                    *)
(***************************************************************************)
Ids == 1..Len(parent)

\* the places of hist where call id has an event ev
Idx(id, ev) == { i \in 1..Len(hist) : hist[i].id = id /\ hist[i].ev = ev }

\* the event of call id named ev (there is one)
The(id, ev) == hist[CHOOSE i \in Idx(id, ev) : TRUE]

\* the events of call id among evs, in order
Proj(id, evs) == SelectSeq(hist, LAMBDA e : e.id = id /\ e.ev \in evs)

EvNames(es) == [i \in 1..Len(es) |-> es[i].ev]

Returned(id) == Idx(id, "return") # {}

\* the event at place i is followed at once by g raising e
RaisesNext(i, e) ==
    /\ i < Len(hist)
    /\ hist[i + 1] = Event(hist[i].id, "raise", e, <<>>)

RECURSIVE Flatten(_)
Flatten(ss) == IF ss = <<>> THEN <<>> ELSE Head(ss) \o Flatten(Tail(ss))

\* the texts the events of hist wrote to stream s, in order
WrittenTo(s) ==
    LET ws == SelectSeq(Flatten([i \in 1..Len(hist) |-> hist[i].w]),
                        LAMBDA w : w.strm = s)
    IN  [i \in 1..Len(ws) |-> ws[i].text]

\* the text of the default input record of a call made with record r
InText(r) == [Val("str", "->", "call", r.a, r.k) EXCEPT !.of = "tuple"]

\* the text of the default output record of a call that returned r
OutText(r) == [Val("str", "<-", "ret", r.a, r.k) EXCEPT !.of = "tuple"]

\* the text "None"
NoneText == [Val("str", "", "", <<>>, {}) EXCEPT !.of = "NoneType"]

(***************************************************************************)
(* C1: with the default formatters and sinks, a call of g in which f       *)
(* returns writes exactly one input record, then invokes f exactly once,   *)
(* then writes exactly one output record and then returns.                 *)
(***************************************************************************)
C1_OneInOneOutInOrder ==
    cfg = DefaultCfg =>
        /\ \A id \in Ids :
               Returned(id) =>
                   LET p == Proj(id, {"inlog", "f", "fret", "fraise",
                                      "outlog", "return", "raise"})
                   IN  /\ EvNames(p) = << "inlog", "f", "fret", "outlog", "return" >>
                       /\ p[1].w = << [strm |-> "stderr",
                                       text |-> InText(The(id, "call").v)] >>
                       /\ p[4].w = << [strm |-> "stderr",
                                       text |-> OutText(p[3].v)] >>
        /\ streams["stderr"] = WrittenTo("stderr")

\* a call with a keyword argument has returned, two records are on stderr
C1_Witness ==
    /\ cfg = DefaultCfg
    /\ stack = <<>>
    /\ Len(parent) = 1
    /\ Returned(1)
    /\ The(1, "call").v.k # {}
    /\ Len(streams["stderr"]) = 2

\* f is invoked with the record g was entered with, and g returns what f
\* returned
PassesThrough ==
    /\ \A i \in 1..Len(hist) :
           hist[i].ev = "f" => hist[i].v = The(hist[i].id, "call").v
    /\ \A i \in 1..Len(hist) :
           hist[i].ev = "return" =>
               /\ Cardinality(Idx(hist[i].id, "fret")) = 1
               /\ hist[i].v = The(hist[i].id, "fret").v

(***************************************************************************)
(* C2 as stated: whatever the formatters and sinks, f is invoked with the  *)
(* args and kwargs g received and g returns the value f returned.          *)
(***************************************************************************)
C2_Original == PassesThrough

(***************************************************************************)
(* C2 amended: with formatters that leave the kwargs dict of the record    *)
(* as they found it, f is invoked with the args and kwargs g received and  *)
(* g returns the value f returned.                                         *)
(***************************************************************************)
C2_PassesThroughUnlessMutated == cfg.infmt # "mutates" => PassesThrough

\* a call with custom formatter results and sinks has returned
C2_Witness ==
    /\ cfg.infmt = "null_fmt" /\ cfg.outfmt = "default"
    /\ cfg.inlog = "printlog" /\ cfg.outlog = "null_log"
    /\ stack = <<>>
    /\ Returned(1)
    /\ The(1, "call").v.k # {}
    /\ outcome = [kind |-> "return", v |-> The(1, "fret").v]

BothNull == cfg.infmt = "null_fmt" /\ cfg.outfmt = "null_fmt"

(***************************************************************************)
(* C3 as stated: when both formatters return None, a call of g writes      *)
(* nothing (read as weakly as possible: nothing reaches any stream).       *)
(***************************************************************************)
C3_Original == BothNull => streams = EmptyStreams

\* what a sink writes when called with None: the loggers hand the text
\* "None" to their stream, printlog prints nothing
WritesOfNone(sink) ==
    CASE sink = "tracewrap_log" -> << [strm |-> "stderr", text |-> NoneText] >>
      [] sink = "null_log" -> << [strm |-> "null", text |-> NoneText] >>
      [] OTHER -> <<>>

(***************************************************************************)
(* C3 amended: when both formatters return None, each sink is still called *)
(* once with None, the input sink before f and the output sink after it;   *)
(* what is written is up to the sink: a get_debug_logger sink writes the   *)
(* line "None" to its stream, null_log and printlog write nothing; the     *)
(* value f returned is returned unchanged.                                 *)
(***************************************************************************)
C3_SinksCalledWithNone ==
    BothNull =>
        /\ \A id \in Ids :
               Returned(id) =>
                   LET p == Proj(id, {"inlog", "f", "fret", "outlog", "return"})
                   IN  /\ EvNames(p) = << "inlog", "f", "fret", "outlog", "return" >>
                       /\ p[1].v = None /\ p[1].w = WritesOfNone(cfg.inlog)
                       /\ p[4].v = None /\ p[4].w = WritesOfNone(cfg.outlog)
                       /\ p[5].v = p[3].v
                       /\ p[3].v = RetOf(The(id, "call").v.a, The(id, "call").v.k)
        /\ \A s \in StreamIds :
               streams[s] = IF s = "null" THEN <<>> ELSE WrittenTo(s)
        /\ ({cfg.inlog, cfg.outlog} \subseteq {"null_log", "printlog"})
               => streams = EmptyStreams

\* both formatters return None and the default sink has written "None" twice
C3_Witness ==
    /\ BothNull
    /\ cfg.inlog = "tracewrap_log" /\ cfg.outlog = "tracewrap_log"
    /\ stack = <<>>
    /\ Returned(1)
    /\ streams["stderr"] = << NoneText, NoneText >>

(***************************************************************************)
(* C4: when f raises, the input sink has been called for that call, the    *)
(* exception leaves g as f raised it, and neither the output formatter nor *)
(* the output sink is called for that call.                                *)
(***************************************************************************)
C4_FRaisesNoOutput ==
    /\ \A i \in 1..Len(hist) :
           hist[i].ev = "fraise" =>
               LET id == hist[i].id
               IN  /\ Cardinality(Idx(id, "inlog")) = 1
                   /\ \A j \in Idx(id, "inlog") : j < i
                   /\ Idx(id, "outfmt") = {}
                   /\ Idx(id, "outlog") = {}
                   /\ Idx(id, "return") = {}
                   /\ RaisesNext(i, hist[i].v)
    /\ \A s \in StreamIds :
           streams[s] = IF s = "null" THEN <<>> ELSE WrittenTo(s)

\* f raised in a call whose input record is the only text on stderr
C4_Witness ==
    /\ cfg = DefaultCfg
    /\ stack = <<>>
    /\ Len(parent) = 1
    /\ Idx(1, "fraise") # {}
    /\ outcome = [kind |-> "raise", v |-> Exc("f", 1)]
    /\ streams["stderr"] = << InText(The(1, "call").v) >>

(***************************************************************************)
(* C9: with the default formatters and sinks and every call returning,     *)
(* the trace of nested calls is well nested: the input record of a call is *)
(* written while its enclosing call is the innermost open one, every       *)
(* output record closes the innermost open input record, and when no call  *)
(* is running every input record has its output record.                    *)
(***************************************************************************)
LogEvents == SelectSeq(hist, LAMBDA e : e.ev \in {"inlog", "outlog"})

Failed == << 0 >>

\* the calls left open by the records es, read from the open calls `open`
RECURSIVE OpenAfter(_, _)
OpenAfter(es, open) ==
    IF es = <<>> \/ open = Failed THEN open
    ELSE LET e == Head(es)
             top == IF open = <<>> THEN 0 ELSE open[Len(open)]
         IN  IF e.ev = "inlog"
             THEN IF parent[e.id] = top
                  THEN OpenAfter(Tail(es), Append(open, e.id))
                  ELSE Failed
             ELSE IF top = e.id
                  THEN OpenAfter(Tail(es), SubSeq(open, 1, Len(open) - 1))
                  ELSE Failed

AllReturn == \A i \in 1..Len(hist) : hist[i].ev # "raise"

C9_WellNested ==
    (cfg = DefaultCfg /\ AllReturn) =>
        LET open == OpenAfter(LogEvents, <<>>)
        IN  /\ open # Failed
            /\ Len(open) <= Len(stack)
            /\ \A i \in 1..Len(open) : open[i] = stack[i].id
            /\ stack = <<>> => open = <<>>
            /\ \A id \in Ids : /\ Cardinality(Idx(id, "inlog")) <= 1
                               /\ Cardinality(Idx(id, "outlog"))
                                      <= Cardinality(Idx(id, "inlog"))
            /\ streams["stderr"] =
                   [i \in 1..Len(LogEvents) |->
                       IF LogEvents[i].ev = "inlog"
                       THEN InText(The(LogEvents[i].id, "call").v)
                       ELSE OutText(The(LogEvents[i].id, "fret").v)]

\* a call made by f has returned inside a call that has returned
C9_Witness ==
    /\ cfg = DefaultCfg /\ AllReturn
    /\ stack = <<>>
    /\ Len(parent) = 2
    /\ parent[2] = 1
    /\ Returned(1) /\ Returned(2)
    /\ Len(streams["stderr"]) = 4

(***************************************************************************)
(* C10: trace catches nothing.  If the input formatter or the input sink   *)
(* raises, f is not invoked and the exception leaves g; if the output      *)
(* formatter or the output sink raises, f has been invoked once and has    *)
(* returned, and the exception leaves g in place of the value.             *)
(***************************************************************************)
C10_TracingFailurePropagates ==
    \A i \in 1..Len(hist) :
        LET id == hist[i].id
            ev == hist[i].ev
        IN  /\ ((ev = "infmt" /\ cfg.infmt = "raises")
                    \/ (ev = "inlog" /\ cfg.inlog = "raises")) =>
                   /\ Idx(id, "f") = {}
                   /\ Idx(id, "return") = {}
                   /\ RaisesNext(i, Exc(ev, id))
            /\ ((ev = "outfmt" /\ cfg.outfmt = "raises")
                    \/ (ev = "outlog" /\ cfg.outlog = "raises")) =>
                   /\ Cardinality(Idx(id, "f")) = 1
                   /\ Cardinality(Idx(id, "fret")) = 1
                   /\ \A j \in Idx(id, "f") \cup Idx(id, "fret") : j < i
                   /\ Idx(id, "return") = {}
                   /\ RaisesNext(i, Exc(ev, id))

\* the output sink raised after f returned; an earlier call failed in the
\* same way
C10_Witness ==
    /\ cfg.outlog = "raises" /\ cfg.inlog = "tracewrap_log"
    /\ cfg.infmt = "default" /\ cfg.outfmt = "default"
    /\ stack = <<>>
    /\ Len(parent) = 2
    /\ outcome = [kind |-> "raise", v |-> Exc("outlog", 2)]
    /\ Idx(2, "fret") # {}

====
